---- MODULE Spec2Model ----
(***************************************************************************)
(* Model of src/src/motion_detector.cpp: the colour-motion detector and    *)
(* its one-clip recording cycle (function main and its helpers).           *)
(*                                                                         *)
(* A frame is modelled by the HSV image that cvtColor produces from it: a  *)
(* set of pixels [x, y, h, s, v]; every pixel not listed is background     *)
(* that no colour range matches.  Masks are sets of pixel positions.       *)
(* Time is the value returned by time(nullptr), counted from process       *)
(* start.  The video sink is taken to be reliable: open and write succeed. *)
(* The writer state is the state the code's explicit open/release calls    *)
(* leave behind, observed at the return statement.                         *)
(***************************************************************************)
EXTENDS Integers, Sequences, FiniteSets, TLC

\* ---------------------------------------------------------------- bounds
\* largest value time(nullptr) takes in a run
MaxTime == 11

\* ------------------------------------------------------ program constants
writeFps == 15
recordDurationS == 30
motionThreshold == 30
quietPeriod == 10
erodeSize == 2
dilateSize == 2
\* frame size delivered by the capture pipeline
Width == 400
Height == 300
\* key code of Escape, and waitKey's "no key" result
KeyEsc == 27
KeyNone == -1

\* int(writeFps * recordDurationS + 0.5)
maxRecordingFrames == (2 * writeFps * recordDurationS + 1) \div 2

\* Point(-1, -1)
NoPoint == <<-1, -1>>

\* colorRanges, indexed from 0 as in the source; lower/upper are <<H, S, V>>
colorRanges ==
  [i \in 0..5 |->
     CASE i = 0 -> [lower |-> <<100, 100, 50>>,  upper |-> <<130, 255, 255>>]
       [] i = 1 -> [lower |-> <<0, 100, 50>>,    upper |-> <<10, 255, 255>>]
       [] i = 2 -> [lower |-> <<160, 100, 50>>,  upper |-> <<179, 255, 255>>]
       [] i = 3 -> [lower |-> <<40, 70, 50>>,    upper |-> <<80, 255, 255>>]
       [] i = 4 -> [lower |-> <<20, 100, 100>>,  upper |-> <<30, 255, 255>>]
       [] i = 5 -> [lower |-> <<0, 0, 200>>,     upper |-> <<179, 30, 255>>]]

\* colorRanges.size()
NumRanges == Cardinality(DOMAIN colorRanges)

\* ------------------------------------------------------- image primitives
\* inRange(hsv, lower, upper, mask): positions whose three channels all lie
\* within the inclusive bounds
inRange(hsv, lower, upper) ==
  {<<p.x, p.y>> : p \in {q \in hsv : /\ lower[1] <= q.h /\ q.h <= upper[1]
                                     /\ lower[2] <= q.s /\ q.s <= upper[2]
                                     /\ lower[3] <= q.v /\ q.v <= upper[3]}}

\* bitwise_or(m1, m2, mask)
bitwise_or(m1, m2) == m1 \cup m2

InImage(q) == /\ 0 <= q[1] /\ q[1] < Width /\ 0 <= q[2] /\ q[2] < Height

\* nearest integer to the square root of n, for 0 <= n <= r*r
RoundSqrt(n, r) ==
  CHOOSE d \in 0..r : (d = 0 \/ 4*d*d - 4*d + 1 <= 4*n) /\ 4*n < 4*d*d + 4*d + 1

\* getStructuringElement(MORPH_ELLIPSE, Size(2r+1, 2r+1)) as offsets from the
\* anchor at the centre: row dy spans columns -dx..dx, dx = round(sqrt(r*r - dy*dy))
getStructuringElement(r) ==
  {<<kx, ky>> \in ((0-r)..r) \X ((0-r)..r) :
      LET dx == RoundSqrt(r*r - ky*ky, r) IN (0 - dx) <= kx /\ kx <= dx}

\* erode(dst, dst, kernel): a pixel stays set when every kernel neighbour that
\* lies inside the image is set
erode(src, kernel) ==
  {p \in src : \A k \in kernel :
      LET q == <<p[1] + k[1], p[2] + k[2]>> IN InImage(q) => q \in src}

\* dilate(dst, dst, kernel): a pixel is set when some kernel neighbour is set
dilate(src, kernel) ==
  {q \in {<<p[1] - k[1], p[2] - k[2]>> : p \in src, k \in kernel} : InImage(q)}

applyMorphology(src, eSize, dSize) ==
  LET dst1 == IF eSize > 0 THEN erode(src, getStructuringElement(eSize)) ELSE src
      dst2 == IF dSize > 0 THEN dilate(dst1, getStructuringElement(dSize)) ELSE dst1
  IN  dst2

RECURSIVE SumCoord(_, _)
SumCoord(S, c) ==
  IF S = {} THEN 0
  ELSE LET p == CHOOSE q \in S : TRUE IN p[c] + SumCoord(S \ {p}, c)

\* moments(proc, true): every set pixel weighs 1
moments(proc) ==
  [m00 |-> Cardinality(proc), m10 |-> SumCoord(proc, 1), m01 |-> SumCoord(proc, 2)]

\* variant: index 1 takes red sub-range 1 alone
colourMaskNoUnion(hsv, i) == inRange(hsv, colorRanges[i].lower, colorRanges[i].upper)

\* the mask of colour index i: index 1 unions the two red sub-ranges
colourMask(hsv, i) ==
  IF i = 1
    THEN bitwise_or(inRange(hsv, colorRanges[1].lower, colorRanges[1].upper),
                    inRange(hsv, colorRanges[2].lower, colorRanges[2].upper))
    ELSE inRange(hsv, colorRanges[i].lower, colorRanges[i].upper)

\* mask, filter and moments of colour index i for one frame
colourMoments(hsv, i) ==
  moments(applyMorphology(colourMask(hsv, i), erodeSize, dilateSize))

\* ------------------------------------------------------------ frame inputs
\* representative HSV values, one inside each colour range
HsvBlue == <<115, 200, 200>>
HsvRed1 == <<5, 200, 200>>
HsvRed2 == <<170, 200, 200>>
HsvGreen == <<60, 200, 200>>

\* a filled square of side 2r+1 around (cx, cy) whose pixels have value hsv
Square(cx, cy, r, hsv) ==
  {[x |-> i, y |-> j, h |-> hsv[1], s |-> hsv[2], v |-> hsv[3]] :
      i \in (cx - r)..(cx + r), j \in (cy - r)..(cy + r)}

Image(px) == [empty |-> FALSE, px |-> px]

\* frame.empty()
fEmpty == [empty |-> TRUE, px |-> {}]
fBlank == Image({})
fBlueA == Image(Square(10, 10, 2, HsvBlue))
\* 30 px away from the blob of fBlueA (18, 24 apart)
fBlueB == Image(Square(28, 34, 2, HsvBlue))
\* 31 px away from the blob of fBlueA
fBlueC == Image(Square(41, 10, 2, HsvBlue))
\* the blob of fBlueA plus one isolated blue pixel
fBlueNoise == Image(Square(10, 10, 2, HsvBlue) \cup Square(300, 10, 0, HsvBlue))
fBlueGreenA == Image(Square(10, 10, 2, HsvBlue) \cup Square(10, 100, 2, HsvGreen))
fBlueGreenC == Image(Square(41, 10, 2, HsvBlue) \cup Square(41, 100, 2, HsvGreen))
\* a blob that touches the right and the bottom border of the frame
fBlueCorner == Image(Square(Width - 3, Height - 3, 2, HsvBlue))
\* the two red sub-ranges swap places between fRedA and fRedB
fRedA == Image(Square(10, 200, 2, HsvRed1) \cup Square(110, 200, 2, HsvRed2))
fRedB == Image(Square(110, 200, 2, HsvRed1) \cup Square(10, 200, 2, HsvRed2))

Frames ==
  {fEmpty, fBlank, fBlueA, fBlueB, fBlueC, fBlueNoise, fBlueGreenA, fBlueGreenC,
   fBlueCorner, fRedA, fRedB}

\* the moments of every colour index for every frame
FrameMoments == [f \in Frames |-> [i \in 0..(NumRanges - 1) |-> colourMoments(f.px, i)]]

\* ------------------------------------------------------------------ state
VARIABLES
  pc,              \* "setup", "wait" (cin.get), "loop" (inner loop), "exit"
  ret,             \* main's return value, -1 while running
  err,             \* last message written to cerr
  capOpened,       \* cap.isOpened()
  clock,           \* last value returned by time(nullptr)
  lastCentroids,   \* lastCentroids[i], i in 0..5
  lastSnapshot,
  isRecording,
  recordingFrames,
  writerOpened,    \* writer.isOpened()
  sinkLen,         \* frames in motion.avi
  opens,           \* calls of writer.open so far
  cycleOpens,      \* calls of writer.open in the current cycle
  sessionFrames,   \* non-empty frames acquired since the session started, the
                   \* frame that started it included
  attempts,        \* detection attempts made in the current cycle
  trigger,         \* colour index that started the session in the last attempt, -1 if none
  observed,        \* the last attempt's result per colour index it evaluated:
                   \* the centroid it computed, NoPoint for a mask without mass
  before,          \* lastCentroids as the last attempt found them
  attemptFrame,    \* the frame the last attempt ran on
  polled,          \* whether the last loop iteration called waitKey
  probe            \* mask extraction on its own: [hsv, i, mask], i = -1 before
                   \* the extraction

vars == <<pc, ret, err, capOpened, clock, lastCentroids, lastSnapshot, isRecording,
          recordingFrames, writerOpened, sinkLen, opens, cycleOpens, sessionFrames,
          attempts, trigger, observed, before, attemptFrame, polled, probe>>

cycleVars == <<lastCentroids, lastSnapshot, isRecording, recordingFrames,
               writerOpened, sinkLen, opens, cycleOpens, sessionFrames, attempts,
               trigger, observed, before, attemptFrame>>

\* the state of main when it starts
ProgramInit ==
  /\ pc = "setup"
  /\ ret = -1
  /\ err = ""
  /\ capOpened = FALSE
  /\ clock = 0
  /\ lastCentroids = [i \in 0..(NumRanges - 1) |-> NoPoint]
  /\ lastSnapshot = 0
  /\ isRecording = FALSE
  /\ recordingFrames = 0
  /\ writerOpened = FALSE
  /\ sinkLen = 0
  /\ opens = 0
  /\ cycleOpens = 0
  /\ sessionFrames = 0
  /\ attempts = 0
  /\ trigger = -1
  /\ observed = << >>
  /\ before = lastCentroids
  /\ attemptFrame = fEmpty
  /\ polled = FALSE

\* no mask extraction on its own
NoProbe == [hsv |-> {}, i |-> -1, mask |-> {}]

Init == ProgramInit /\ probe = NoProbe

\* VideoCapture cap(pipeline, CAP_GSTREAMER); if (!cap.isOpened()) return 1;
Setup ==
  /\ pc = "setup"
  /\ \E ok \in BOOLEAN :
       /\ capOpened' = ok
       /\ IF ok
            THEN pc' = "wait" /\ UNCHANGED <<ret, err>>
            ELSE pc' = "exit" /\ ret' = 1 /\ err' = "Could not open camera."
  /\ UNCHANGED <<clock, polled, probe>>
  /\ UNCHANGED cycleVars

\* fill(lastCentroids.begin(), lastCentroids.end(), Point(-1, -1))
ResetCentroids(lc) == [i \in DOMAIN lc |-> NoPoint]

\* variant: the timer starts at the current time
ResetSnapshotNow(t) == t

\* time_t lastSnapshot = time(nullptr) - quietPeriod
ResetSnapshot(t) == t - quietPeriod

\* cin.get() returns; reset state for this cycle
StartCycle ==
  /\ pc = "wait"
  /\ \E t \in clock..MaxTime :
       /\ clock' = t
       /\ lastSnapshot' = ResetSnapshot(t)
  /\ lastCentroids' = ResetCentroids(lastCentroids)
  /\ isRecording' = FALSE
  /\ recordingFrames' = 0
  /\ writerOpened' = FALSE
  /\ cycleOpens' = 0
  /\ sessionFrames' = 0
  /\ attempts' = 0
  /\ trigger' = -1
  /\ observed' = << >>
  /\ before' = ResetCentroids(lastCentroids)
  /\ attemptFrame' = fEmpty
  /\ pc' = "loop"
  /\ UNCHANGED <<ret, err, capOpened, sinkLen, opens, polled, probe>>

\* ------------------------------------------------------- detection attempt
\* squared Euclidean length of the point p
norm2(p) == p[1] * p[1] + p[2] * p[2]

\* norm(d) > t for an integer point d and an integer t >= 0: the square root
\* of an integer exceeds t exactly when the integer exceeds t*t
normExceeds(d, t) == norm2(d) > t * t

\* variant: the stored centroid is compared without the validity test
MotionAtNoValid(c, last) ==
  normExceeds(<<c[1] - last[1], c[2] - last[2]>>, motionThreshold)

\* variant: a displacement equal to the threshold counts as motion
MotionAtInclusive(c, last) ==
  /\ last # NoPoint
  /\ norm2(<<c[1] - last[1], c[2] - last[2]>>) >= motionThreshold * motionThreshold

\* lastCentroids[i] != Point(-1, -1) && norm(c - lastCentroids[i]) > motionThreshold
MotionAt(c, last) ==
  /\ last # NoPoint
  /\ normExceeds(<<c[1] - last[1], c[2] - last[2]>>, motionThreshold)

\* variant: the first moments are not divided by the mass
centroidSum(M) == <<M.m10, M.m01>>

\* Point c(int(M.m10 / M.m00), int(M.m01 / M.m00))
centroid(M) == <<M.m10 \div M.m00, M.m01 \div M.m00>>

\* variant: the loop goes on after a colour has started the session
RECURSIVE ColourLoopNoBreak(_, _, _)
ColourLoopNoBreak(i, st, M) ==
  IF i >= NumRanges THEN st
  ELSE IF M[i].m00 > 0
         THEN LET c == centroid(M[i])
                  seen == [st EXCEPT !.observed = (i :> c) @@ @, !.lc[i] = c]
              IN  IF MotionAt(c, st.lc[i])
                    THEN ColourLoopNoBreak(i + 1,
                           [seen EXCEPT !.movementDetected = TRUE,
                                        !.trigger = IF st.trigger = -1 THEN i ELSE @,
                                        !.opened = @ + 1], M)
                    ELSE ColourLoopNoBreak(i + 1, seen, M)
         ELSE ColourLoopNoBreak(i + 1, [st EXCEPT !.observed = (i :> NoPoint) @@ @], M)

\* variant: an empty mask stores the invalid point
RECURSIVE ColourLoopOverwrite(_, _, _)
ColourLoopOverwrite(i, st, M) ==
  IF i >= NumRanges THEN st
  ELSE IF M[i].m00 > 0
         THEN LET c == centroid(M[i])
                  seen == [st EXCEPT !.observed = (i :> c) @@ @]
              IN  IF MotionAt(c, st.lc[i])
                    THEN [seen EXCEPT !.movementDetected = TRUE, !.trigger = i,
                                      !.opened = @ + 1]
                    ELSE ColourLoopOverwrite(i + 1, [seen EXCEPT !.lc[i] = c], M)
         ELSE ColourLoopOverwrite(i + 1, [st EXCEPT !.observed = (i :> NoPoint) @@ @,
                                                    !.lc[i] = NoPoint], M)

\* variant: the colour that starts the session stores its centroid as well
RECURSIVE ColourLoopStoreOnTrigger(_, _, _)
ColourLoopStoreOnTrigger(i, st, M) ==
  IF i >= NumRanges THEN st
  ELSE IF M[i].m00 > 0
         THEN LET c == centroid(M[i])
                  seen == [st EXCEPT !.observed = (i :> c) @@ @]
              IN  IF MotionAt(c, st.lc[i])
                    THEN [seen EXCEPT !.movementDetected = TRUE, !.trigger = i,
                                      !.opened = @ + 1, !.lc[i] = c]
                    ELSE ColourLoopStoreOnTrigger(i + 1, [seen EXCEPT !.lc[i] = c], M)
         ELSE ColourLoopStoreOnTrigger(i + 1, [st EXCEPT !.observed = (i :> NoPoint) @@ @], M)

\* the for loop over the colour indices, from index i on; st carries the
\* centroids, movementDetected, the index that broke out of the loop, what
\* each evaluated index computed and the number of writer.open calls
RECURSIVE ColourLoop(_, _, _)
ColourLoop(i, st, M) ==
  IF i >= NumRanges THEN st
  ELSE IF M[i].m00 > 0
         THEN LET c == centroid(M[i])
                  seen == [st EXCEPT !.observed = (i :> c) @@ @]
              IN  IF MotionAt(c, st.lc[i])
                    THEN [seen EXCEPT !.movementDetected = TRUE, !.trigger = i,
                                      !.opened = @ + 1]
                    ELSE ColourLoop(i + 1, [seen EXCEPT !.lc[i] = c], M)
         ELSE ColourLoop(i + 1, [st EXCEPT !.observed = (i :> NoPoint) @@ @], M)

\* variant: the quiet period must be exceeded
QuietElapsedStrict(now, last) == now - last > quietPeriod

\* difftime(now, lastSnapshot) >= quietPeriod
QuietElapsed(now, last) == now - last >= quietPeriod

\* variant: the attempt is not gated by the recording state
DetectionDueAlways(rec, now, last) == now - last >= quietPeriod

\* !isRecording && difftime(now, lastSnapshot) >= quietPeriod
DetectionDue(rec, now, last) == ~rec /\ QuietElapsed(now, last)

\* variant: the session stops one frame late
CapReachedLate(n) == n > maxRecordingFrames

\* ++recordingFrames >= maxRecordingFrames, n being the incremented counter
CapReached(n) == n >= maxRecordingFrames

\* variant: the quit path leaves the writer as it is
QuitReleaseNone(opened) == opened

\* if (writer.isOpened()) writer.release();
QuitRelease(opened) == IF opened THEN FALSE ELSE opened

\* writer.release() on the frame-cap path
CapRelease(opened) == FALSE

\* variant: every attempt restarts the quiet period
SnapshotAfterAlways(moved, now, last) == now

\* if (!movementDetected) lastSnapshot = now;
SnapshotAfter(moved, now, last) == IF ~moved THEN now ELSE last

\* variant: the write step tests isRecording as it was before the attempt
WriteDueBefore(rec, started) == rec

\* if (isRecording) at the write step, after the attempt may have set it
WriteDue(rec, started) == rec \/ started

\* variant: the cap closes the sink and leaves the loop without clearing the flag
StopRecordingKeep(rec) == rec

\* isRecording = false on the frame-cap path
StopRecording(rec) == FALSE

\* variant: the open call leaves the writer as it was
OpenWriterNone(opened) == opened

\* writer.open("motion.avi", fourcc, writeFps, frame.size())
OpenWriter(opened) == TRUE

\* ------------------------------------------------------------- inner loop
\* variant: the empty frame is noticed only after the write step
DisconnectedAfterWrite ==
  /\ err' = "Camera disconnected!"
  /\ ret' = 1
  /\ pc' = "exit"
  /\ polled' = FALSE
  /\ sinkLen' = IF isRecording /\ writerOpened THEN sinkLen + 1 ELSE sinkLen
  /\ recordingFrames' = IF isRecording THEN recordingFrames + 1 ELSE recordingFrames
  /\ UNCHANGED <<capOpened, clock, lastCentroids, lastSnapshot, isRecording,
                 writerOpened, opens, cycleOpens, sessionFrames, attempts, trigger,
                 observed, before, attemptFrame, probe>>

\* if (frame.empty()) { cerr << "Camera disconnected!"; return 1; }
Disconnected ==
  /\ err' = "Camera disconnected!"
  /\ ret' = 1
  /\ pc' = "exit"
  /\ polled' = FALSE
  /\ UNCHANGED <<capOpened, clock, probe>>
  /\ UNCHANGED cycleVars

\* one iteration of the inner loop on the non-empty frame f, with time(nullptr)
\* returning now and waitKey(1), if it is reached, returning key
Process(f, now, key) ==
  LET due == DetectionDue(isRecording, now, lastSnapshot)
      st0 == [lc |-> lastCentroids, movementDetected |-> FALSE, trigger |-> -1,
              observed |-> << >>, opened |-> 0]
      st == IF due THEN ColourLoop(0, st0, FrameMoments[f]) ELSE st0
      started == due /\ st.movementDetected
      rec1 == IF started THEN TRUE ELSE isRecording
      n1 == IF started THEN 0 ELSE recordingFrames
      open1 == IF started THEN OpenWriter(writerOpened) ELSE writerOpened
      len1 == IF started THEN 0 ELSE sinkLen
      \* 3) write & stop
      write == WriteDue(isRecording, started)
      len2 == IF write /\ open1 THEN len1 + 1 ELSE len1
      n2 == IF write THEN n1 + 1 ELSE n1
      stop == rec1 /\ CapReached(n2)
  IN  /\ clock' = now
      /\ UNCHANGED probe
      /\ lastCentroids' = st.lc
      /\ lastSnapshot' = IF due THEN SnapshotAfter(st.movementDetected, now, lastSnapshot)
                                ELSE lastSnapshot
      /\ attempts' = IF due THEN attempts + 1 ELSE attempts
      /\ trigger' = IF due THEN st.trigger ELSE trigger
      /\ observed' = IF due THEN st.observed ELSE observed
      /\ before' = IF due THEN lastCentroids ELSE before
      /\ attemptFrame' = IF due THEN f ELSE attemptFrame
      /\ opens' = opens + st.opened
      /\ cycleOpens' = cycleOpens + st.opened
      /\ sessionFrames' = IF started THEN 1
                          ELSE IF isRecording THEN sessionFrames + 1 ELSE sessionFrames
      /\ recordingFrames' = n2
      /\ sinkLen' = len2
      /\ IF stop
           THEN \* release, leave the inner loop by break
                /\ writerOpened' = CapRelease(open1)
                /\ isRecording' = StopRecording(rec1)
                /\ pc' = "wait"
                /\ polled' = FALSE
                /\ UNCHANGED <<ret, err, capOpened>>
           ELSE /\ isRecording' = rec1
                /\ polled' = TRUE
                /\ IF key = KeyEsc
                     THEN /\ capOpened' = FALSE
                          /\ writerOpened' = QuitRelease(open1)
                          /\ ret' = 0
                          /\ pc' = "exit"
                          /\ UNCHANGED err
                     ELSE /\ writerOpened' = open1
                          /\ UNCHANGED <<ret, err, capOpened, pc>>

\* cap.read(frame) and the rest of the iteration
Iteration ==
  /\ pc = "loop"
  /\ \E f \in Frames :
       IF f.empty
         THEN Disconnected
         ELSE \E now \in clock..MaxTime, key \in {KeyNone, KeyEsc} : Process(f, now, key)

Next == Setup \/ StartCycle \/ Iteration

Spec == Init /\ [][Next]_vars

\* an iteration on a non-empty frame with no key pressed
Advance ==
  /\ pc = "loop"
  /\ \E f \in Frames \ {fEmpty}, now \in clock..MaxTime : Process(f, now, KeyNone)

\* the camera keeps delivering frames: cap.read returns and the iteration runs
\* for as long as the loop is not left
LiveSpec == Init /\ [][Next]_vars /\ WF_vars(Advance)

\* ------------------------------------------- mask extraction on its own
\* channel values at and next to the bounds of the colour ranges
ProbeH == {0, 10, 11, 115, 159, 160, 179}
ProbeS == {20, 99, 100, 255}
ProbeV == {49, 50, 255}

\* a pixel that is white by colorRanges[5] and has a red hue
HsvWhite == <<5, 20, 255>>

\* two-pixel images: any probe value at (0, 0), a blue, red or white pixel at (1, 0)
ProbeImages ==
  {Square(0, 0, 0, <<h, s, v>>) \cup Square(1, 0, 0, other) :
      h \in ProbeH, s \in ProbeS, v \in ProbeV,
      other \in {HsvBlue, HsvRed1, HsvRed2, HsvWhite}}

MaskInit ==
  /\ ProgramInit
  /\ \E img \in ProbeImages : probe = [hsv |-> img, i |-> -1, mask |-> {}]

\* the mask extraction of lines 104-112 for one colour index
ExtractMask ==
  /\ probe.i = -1
  /\ \E i \in 0..(NumRanges - 1) :
       probe' = [probe EXCEPT !.i = i, !.mask = colourMask(probe.hsv, i)]
  /\ UNCHANGED <<pc, ret, err, capOpened, clock, polled>>
  /\ UNCHANGED cycleVars

MaskNext == ExtractMask

MaskSpec == MaskInit /\ [][MaskNext]_vars

\* ----------------------------------------------------------------- claims
\* squared distance between two points
Dist2(a, b) == norm2(<<a[1] - b[1], a[2] - b[2]>>)

\* the step is an inner-loop iteration on a non-empty frame
ProcessedFrame == pc = "loop" /\ err' = ""

\* the step is an inner-loop iteration that made a detection attempt
AttemptStep == pc = "loop" /\ attempts' = attempts + 1

\* C1: a session that is closed without a quit or a disconnection holds
\* exactly maxRecordingFrames = 450 frames and has left the controller idle;
\* no session ever holds more, and an open session holds one frame per counted
\* frame.
C1_SessionFrameBound ==
  /\ maxRecordingFrames = 450
  /\ sinkLen <= maxRecordingFrames
  /\ (writerOpened /\ ret = -1) => (isRecording /\ sinkLen = recordingFrames
                                     /\ sinkLen < maxRecordingFrames)
  /\ (opens > 0 /\ ~writerOpened /\ ret = -1) =>
        (sinkLen = maxRecordingFrames /\ ~isRecording)

C1_Witness ==
  pc = "wait" /\ opens = 1 /\ ~writerOpened /\ sinkLen = 450 /\ ret = -1

\* C2: the first loop iteration of a cycle (no attempt made yet) never starts
\* a recording, whatever the frame shows.
C2_FirstAttemptImmunity ==
  [][(pc = "loop" /\ attempts = 0) => (~isRecording' /\ trigger' = -1 /\ opens' = opens)]_vars

\* the first attempt of a cycle ran on a frame with a blob far from (-1, -1)
C2_Witness ==
  /\ attempts = 1
  /\ attemptFrame = fBlueGreenC
  /\ observed[0] = <<41, 10>>
  /\ before[0] = NoPoint
  /\ ~isRecording

\* C3 as stated: after a no-motion attempt the next attempt comes only when
\* strictly more than quietPeriod seconds have elapsed.
C3_Original ==
  [][(AttemptStep /\ attempts >= 1) => clock' - lastSnapshot > quietPeriod]_vars

\* C3 amended: after a no-motion attempt, a processed frame of an idle
\* controller gets a detection attempt exactly when at least quietPeriod
\* seconds have elapsed since that attempt; a frame at exactly quietPeriod
\* seconds does get one.
C3_QuietPeriodGating ==
  [][(ProcessedFrame /\ attempts >= 1 /\ ~isRecording) =>
        ((attempts' = attempts + 1) <=> (clock' - lastSnapshot >= quietPeriod))]_vars

\* the second attempt of a cycle ran exactly quietPeriod seconds after the
\* first: the first cannot be earlier than time 0
C3_Witness == attempts = 2 /\ clock = quietPeriod /\ lastSnapshot = quietPeriod

\* C4: in an attempt, a colour whose stored centroid was valid and whose new
\* centroid is valid starts the session if and only if the two are strictly
\* more than motionThreshold apart; a session starts only through such a colour.
C4_ThresholdStrict ==
  attempts >= 1 =>
    /\ \A i \in DOMAIN observed :
         (before[i] # NoPoint /\ observed[i] # NoPoint) =>
            ((trigger = i) <=> (Dist2(observed[i], before[i]) > motionThreshold * motionThreshold))
    /\ trigger # -1 => (trigger \in DOMAIN observed /\ before[trigger] # NoPoint
                         /\ observed[trigger] # NoPoint)
    /\ (trigger = -1 /\ pc = "loop") => ~isRecording

\* blue moved by exactly 30 px (18 across, 24 down) and no session started
C4_Witness ==
  /\ before[0] = <<10, 10>>
  /\ observed[0] = <<28, 34>>
  /\ Dist2(observed[0], before[0]) = 900
  /\ trigger = -1
  /\ ~isRecording
  /\ lastCentroids[0] = <<28, 34>>

\* C5: the colour that starts the session ends the attempt: every later
\* colour index is not evaluated and keeps its stored centroid, and one
\* attempt opens the sink at most once.
C5_PriorityShortCircuit ==
  [][(AttemptStep /\ trigger' # -1) =>
        /\ \A j \in (trigger' + 1)..(NumRanges - 1) :
              j \notin DOMAIN observed' /\ lastCentroids'[j] = lastCentroids[j]
        /\ opens' = opens + 1
        /\ isRecording']_vars

\* blue and green both moved by 31 px in one frame; blue started the session
C5_Witness ==
  /\ trigger = 0
  /\ attemptFrame = fBlueGreenC
  /\ before[0] = <<10, 10>> /\ before[3] = <<10, 100>>
  /\ MotionAt(centroid(FrameMoments[attemptFrame][3]), before[3])
  /\ lastCentroids[3] = <<10, 100>>
  /\ opens = 1

\* C6 as stated: red is one entry; index 2 (red sub-range 2 alone) is never
\* evaluated, never tracks a centroid and never starts a session.
C6_Original ==
  /\ 2 \notin DOMAIN observed
  /\ lastCentroids[2] = NoPoint
  /\ trigger # 2

\* C7: no step taken while recording changes a tracked centroid or the
\* quiet-period timestamp, or makes a detection attempt.
C7_NoDetectionWhileRecording ==
  [][isRecording => /\ lastCentroids' = lastCentroids
                    /\ lastSnapshot' = lastSnapshot
                    /\ attempts' = attempts]_vars

\* a recording session has taken frames while the quiet period was over
C7_Witness ==
  /\ isRecording
  /\ recordingFrames >= 2
  /\ clock - lastSnapshot >= quietPeriod
  /\ pc = "loop"

\* C8: the writer is not open after the frame cap ended the session, nor
\* after the process left on the quit signal.
C8_SinkReleased ==
  /\ pc = "wait" => ~writerOpened
  /\ ret = 0 => ~writerOpened
  /\ (opens > 0 /\ sinkLen = maxRecordingFrames) => ~writerOpened

\* the quit signal came in the middle of a session
C8_Witness ==
  /\ ret = 0
  /\ pc = "exit"
  /\ isRecording
  /\ sinkLen > 0 /\ sinkLen < maxRecordingFrames
  /\ ~writerOpened

\* C9: the step that reads an empty frame ends the run and changes nothing
\* else: no attempt, no write, no centroid, no timer, no time read; and no
\* step follows the exit.
C9_FatalDisconnection ==
  [][/\ pc # "exit"
     /\ (pc = "loop" /\ err' = "Camera disconnected!") =>
           /\ pc' = "exit" /\ ret' = 1
           /\ UNCHANGED <<lastCentroids, lastSnapshot, sinkLen, recordingFrames,
                          isRecording, attempts, opens, clock, writerOpened>>]_vars

\* the camera disconnected in the middle of a session
C9_Witness ==
  /\ err = "Camera disconnected!"
  /\ pc = "exit"
  /\ isRecording
  /\ sinkLen > 0

\* C10 as stated: every loop iteration on a non-empty frame polls the quit
\* signal before the program waits for input or reads another frame.
C10_Original == [][ProcessedFrame => polled']_vars


\* C11: the step that starts a cycle leaves every tracked centroid invalid,
\* the controller idle with counter zero and the timer exactly quietPeriod
\* behind the clock; and the first non-empty frame of every cycle gets a
\* detection attempt, whatever the time it arrives at.
C11_CycleReset ==
  [][/\ pc = "wait" =>
          /\ \A i \in DOMAIN lastCentroids' : lastCentroids'[i] = NoPoint
          /\ ~isRecording' /\ recordingFrames' = 0 /\ ~writerOpened'
          /\ clock' - lastSnapshot' = quietPeriod
          /\ attempts' = 0
     /\ (ProcessedFrame /\ attempts = 0) => (attempts' = 1 /\ before' = lastCentroids
                                              /\ lastCentroids = ResetCentroids(lastCentroids))]_vars

\* the cycle that follows a completed recording has made its first attempt
C11_Witness ==
  /\ pc = "loop"
  /\ opens = 1 /\ sinkLen = maxRecordingFrames /\ ~writerOpened
  /\ attempts = 1
  /\ attemptFrame = fBlueC
  /\ lastCentroids[0] = <<41, 10>>


\* the pixel lies within red sub-range 1 or red sub-range 2, bounds included
InRed(p) ==
  /\ (0 <= p.h /\ p.h <= 10) \/ (160 <= p.h /\ p.h <= 179)
  /\ 100 <= p.s /\ p.s <= 255
  /\ 50 <= p.v /\ p.v <= 255

\* C12: the mask of colour index 1 holds exactly the positions of the pixels
\* that lie within red sub-range 1 or red sub-range 2; a pixel within neither
\* is left out, also when another colour's range matches it.
C12_RedRangeUnion ==
  probe.i = 1 =>
    /\ \A p \in probe.hsv : (<<p.x, p.y>> \in probe.mask) <=> InRed(p)
    /\ probe.mask \subseteq {<<p.x, p.y>> : p \in probe.hsv}

\* the lower corner of red sub-range 2 is in the mask, a blue pixel is not
C12_Witness ==
  /\ probe.i = 1
  /\ [x |-> 0, y |-> 0, h |-> 160, s |-> 100, v |-> 50] \in probe.hsv
  /\ [x |-> 1, y |-> 0, h |-> 115, s |-> 200, v |-> 200] \in probe.hsv
  /\ probe.mask = {<<0, 0>>}


\* C13 as stated: the step that takes the controller from Recording to Idle
\* closes the sink and leaves the frame counter at zero.
C13_Original ==
  [][(isRecording /\ ~isRecording') => (~writerOpened' /\ recordingFrames' = 0)]_vars


\* C14: after a detection attempt, every colour index the attempt evaluated
\* whose processed mask was empty has the tracked centroid it had before the
\* attempt, and is not the index that signalled motion.
C14_EmptyMaskKeepsCentroid ==
  attempts >= 1 =>
    \A i \in DOMAIN observed :
       FrameMoments[attemptFrame][i].m00 = 0 =>
          /\ observed[i] = NoPoint
          /\ lastCentroids[i] = before[i]
          /\ trigger # i

\* blue was tracked at (10, 10) and the latest attempt saw no blue at all
C14_Witness ==
  /\ attempts >= 2
  /\ 0 \in DOMAIN observed
  /\ FrameMoments[attemptFrame][0].m00 = 0
  /\ before[0] = <<10, 10>>
  /\ lastCentroids[0] = <<10, 10>>

\* C15: after a detection attempt, every colour index the attempt evaluated
\* with a non-empty processed mask holds the new centroid if it did not signal
\* motion, whatever it held before, and holds what it held before the attempt
\* if it is the index that signalled motion.
C15_CentroidUpdate ==
  attempts >= 1 =>
    \A i \in DOMAIN observed :
       FrameMoments[attemptFrame][i].m00 > 0 =>
          /\ observed[i] = centroid(FrameMoments[attemptFrame][i])
          /\ IF trigger = i THEN lastCentroids[i] = before[i]
                            ELSE lastCentroids[i] = observed[i]

\* index 1 stored its new centroid over a valid one without signalling, index
\* 2 signalled and kept the old one
C15_Witness ==
  /\ trigger = 2
  /\ before[1] # NoPoint
  /\ lastCentroids[1] = observed[1] /\ observed[1] = <<60, 200>>
  /\ before[2] = <<110, 200>> /\ observed[2] = <<10, 200>>
  /\ lastCentroids[2] = <<110, 200>>


\* C16: a step of the frame loop sets the quiet-period timestamp to the time
\* of the frame if it makes a detection attempt in which no colour signals
\* motion, and leaves the timestamp as it was in every other case.
C16_SnapshotUpdate ==
  [][pc = "loop" =>
       IF attempts' = attempts + 1 /\ trigger' = -1
         THEN lastSnapshot' = clock'
         ELSE lastSnapshot' = lastSnapshot]_vars

\* the second attempt of a cycle ended without motion at time 10 or later
C16_Witness ==
  /\ pc = "loop"
  /\ attempts = 2
  /\ trigger = -1
  /\ attemptFrame = fBlueB
  /\ clock >= quietPeriod
  /\ lastSnapshot = clock


\* C17: from the frame on which motion was detected on, the sink holds one
\* entry for every non-empty frame acquired since the session started, that
\* frame included; each step of a session appends the frame it acquired, once;
\* the counter equals the number of entries, so the session started from zero
\* with the sink open.
C17_SinkHoldsSessionFrames ==
  trigger # -1 =>
    /\ sinkLen = sessionFrames
    /\ recordingFrames = sinkLen
    /\ sinkLen >= 1
    /\ (isRecording /\ pc = "loop") => writerOpened

\* a session that started in a cycle's second attempt is three frames long
C17_Witness ==
  /\ pc = "loop"
  /\ isRecording /\ writerOpened
  /\ trigger = 0
  /\ attempts = 2
  /\ sessionFrames = 3
  /\ sinkLen = 3


\* C18: a session that is Recording does not stay so forever: unless the run
\* ends on an empty frame or on the quit signal, the session reaches the frame
\* cap, where the sink is closed and the controller is Idle.
C18_SessionEnds ==
  isRecording ~> \/ pc = "exit"
                 \/ /\ ~isRecording /\ ~writerOpened
                    /\ sinkLen = maxRecordingFrames

\* a session ran from its first frame to the cap without a key or an empty frame
C18_Witness ==
  /\ pc = "wait" /\ ret = -1 /\ err = ""
  /\ ~isRecording /\ ~writerOpened
  /\ trigger # -1
  /\ sessionFrames = maxRecordingFrames
  /\ sinkLen = maxRecordingFrames


\* C19: whenever the loop is about to acquire a frame, the sink is open exactly
\* if the controller is Recording and the counter lies in
\* 0..maxRecordingFrames-1; and no cycle opens the sink more than once.
C19_AcquisitionInvariant ==
  /\ pc = "loop" =>
       /\ writerOpened <=> isRecording
       /\ 0 <= recordingFrames /\ recordingFrames <= maxRecordingFrames - 1
       /\ isRecording => cycleOpens = 1
  /\ cycleOpens <= 1

\* one frame before the cap
C19_Witness ==
  /\ pc = "loop"
  /\ isRecording /\ writerOpened
  /\ cycleOpens = 1
  /\ recordingFrames = maxRecordingFrames - 1


\* C20: every tracked centroid is (-1, -1) or a point inside the frame, and
\* every centroid an attempt computed from a non-empty processed mask is a
\* point inside the frame, hence not (-1, -1).
C20_CentroidInFrame ==
  /\ \A i \in DOMAIN lastCentroids :
        lastCentroids[i] = NoPoint \/ InImage(lastCentroids[i])
  /\ ~InImage(NoPoint)
  /\ attempts >= 1 =>
       \A i \in DOMAIN observed :
          FrameMoments[attemptFrame][i].m00 > 0 =>
             /\ observed[i] # NoPoint
             /\ InImage(observed[i])

\* the blob in the bottom-right corner of the frame is tracked
C20_Witness ==
  /\ attempts >= 1
  /\ attemptFrame = fBlueCorner
  /\ 0 \in DOMAIN observed
  /\ lastCentroids[0] = observed[0]
  /\ lastCentroids[0][1] >= Width - 5 /\ lastCentroids[0][2] >= Height - 5

====
